---- MODULE Spec2Model ----
(***************************************************************************)
(* The `prepare` command of graphql-cli-prepare: for every target project  *)
(* it bundles the schema (importSchema), generates bindings (generateCode) *)
(* and optionally saves the resulting extension settings.                  *)
(*                                                                         *)
(* Modelled from src/unnamed/part_002 (class Prepare) and src/src/index.ts *)
(* (the command object).  The file system, the configuration store, the    *)
(* two library calls and the spinner are collaborators; what the program   *)
(* asks of them is recorded in `trace`.                                    *)
(***************************************************************************)
EXTENDS Integers, Sequences, FiniteSets, TLC

\* Projects in the order the configuration store delivers them (getProjects).
Delivered == <<"A", "B">>

ProjectNames == {Delivered[i] : i \in DOMAIN Delivered}

---------------------------------------------------------------------------
\* Paths.  A path is directory + file name + extension; path.join(dir,
\* `${name}.${ext}`) builds one and path.dirname takes the directory back.

NoDir == ""

join(dir, name, ext) == [dir |-> dir, name |-> name, ext |-> ext]

dirname(p) == p.dir

\* undefined, where a path is expected
NoPath == join("", "", "")

\* Directories that do not exist and that ensureDirSync cannot create.
Uncreatable == {"ro"}

\* Directories a run may name with --output.
OutputDirs == {"out", "ro"}

\* Generator names are strings; modelled as sequences of characters so that
\* String.prototype.endsWith is computed, not assumed.
NoGen == <<>>

TsGen == <<"b", "-", "t", "s">>

JsGen == <<"b", "-", "j", "s">>

Generators == {TsGen, JsGen}

endsWith(s, suffix) ==
  /\ Len(s) >= Len(suffix)
  /\ SubSeq(s, Len(s) - Len(suffix) + 1, Len(s)) = suffix

TS == <<"t", "s">>

---------------------------------------------------------------------------
\* Values of the extension keys `bundle` and `prepare-bundle`: absent, a
\* string (what the bundle step stores) or an object { output: <path> }
\* (what determineInputSchema looks for).

Absent == [kind |-> "absent", path |-> NoPath]

Str(p) == [kind |-> "string", path |-> p]

Obj(p) == [kind |-> "object", path |-> p]

\* Values of the extension keys `binding` and `prepare-binding`.
NoBinding == [present |-> FALSE, output |-> NoPath, generator |-> NoGen]

Binding(o, g) == [present |-> TRUE, output |-> o, generator |-> g]

\* A project configuration document (GraphQLProjectConfig.config).
Config(schemaPath, hasExt, b, pb, bi, pbi) ==
  [schemaPath |-> schemaPath, hasExt |-> hasExt,
   bundle |-> b, prepareBundle |-> pb,
   binding |-> bi, prepareBinding |-> pbi]

Src(n) == join("src", n, "graphql")

\* lodash has(config, 'extensions.<key>...')
hasBundle(c) == c.hasExt /\ c.bundle.kind # "absent"

hasPrepareBundle(c) == c.hasExt /\ c.prepareBundle.kind # "absent"

\* has() on a string value finds no own property `output`.
hasBundleOutput(c) == c.hasExt /\ c.bundle.kind = "object"

hasPrepareBundleOutput(c) == c.hasExt /\ c.prepareBundle.kind = "object"

hasBinding(c) == c.hasExt /\ c.binding.present

hasPrepareBinding(c) == c.hasExt /\ c.prepareBinding.present

hasBindingOutput(c) == hasBinding(c) /\ c.binding.output # NoPath

hasPrepareBindingOutput(c) == hasPrepareBinding(c) /\ c.prepareBinding.output # NoPath

hasBindingGenerator(c) == hasBinding(c) /\ c.binding.generator # NoGen

hasPrepareBindingGenerator(c) ==
  hasPrepareBinding(c) /\ c.prepareBinding.generator # NoGen

---------------------------------------------------------------------------
\* File contents.
Sdl(p) == <<"sdl", p>>

\* importSchema(schemaPath): the flattened schema of the file at schemaPath.
importSchema(schemaPath) == <<"flat", schemaPath>>

\* generateCode(schemaContents, generator)
generateCode(contents, generator) == <<"code", contents, generator>>

\* (variant) an existing file is kept, as with { flag: 'wx' } or 'a'
writeFileSyncKeep(fs, p, data) ==
  [q \in DOMAIN fs \cup {p} |-> IF q \in DOMAIN fs THEN fs[q] ELSE data]

\* fs.writeFileSync(path, data, { flag: 'w' })
writeFileSync(fs, p, data) ==
  [q \in DOMAIN fs \cup {p} |-> IF q = p THEN data ELSE fs[q]]

\* One entry of the trace: what was asked of a collaborator, for which
\* project, in which step.
Ev(op, n, step, p, key) ==
  [op |-> op, project |-> n, step |-> step, path |-> p, key |-> key,
   gen |-> NoGen]

---------------------------------------------------------------------------
\* Results of the resolution helpers: err = "" when the helper returned,
\* otherwise the kind of Error it threw.  `dirs` is the set of existing
\* directories afterwards and `ev` what the helper asked of collaborators.

\* fs.ensureDirSync(path.dirname(outputPath)); path.dirname throws a
\* TypeError for a value that is not a string.
ensureDirSync(v, d, n, step) ==
  IF v.kind # "string"
    THEN [err |-> "TypeError", path |-> NoPath, dirs |-> d, ev |-> <<>>]
  ELSE IF dirname(v.path) \in d
    THEN [err |-> "", path |-> v.path, dirs |-> d,
          ev |-> <<Ev("ensureDir", n, step, v.path, "")>>]
  ELSE IF dirname(v.path) \in Uncreatable
    THEN [err |-> "EnsureDir", path |-> NoPath, dirs |-> d,
          ev |-> <<Ev("ensureDir", n, step, v.path, "")>>]
  ELSE [err |-> "", path |-> v.path, dirs |-> d \cup {dirname(v.path)},
        ev |-> <<Ev("ensureDir", n, step, v.path, ""),
                 Ev("mkdir", n, step, v.path, "")>>]

\* spinner.warn about a deprecated key, unless --save is given
deprecated(a, n, step, key) ==
  IF ~a.save THEN <<Ev("warn", n, step, NoPath, key)>> ELSE <<>>

\* (variant) the file name under --output does not carry the project name
determineBundleOutputPathShared(c, n, a, d) ==
  LET raw ==
        IF a.output # NoDir
          THEN [err |-> "", val |-> Str(join(a.output, "schema", "graphql")),
                warn |-> <<>>]
        ELSE IF hasBundle(c)
          THEN [err |-> "", val |-> c.bundle,
                warn |-> deprecated(a, n, "bundle", "bundle")]
        ELSE IF hasPrepareBundle(c)
          THEN [err |-> "", val |-> c.prepareBundle, warn |-> <<>>]
        ELSE [err |-> "OutputPath", val |-> Absent, warn |-> <<>>]
      e == ensureDirSync(raw.val, d, n, "bundle")
  IN IF raw.err # ""
       THEN [err |-> raw.err, path |-> NoPath, dirs |-> d, ev |-> <<>>]
       ELSE [e EXCEPT !.ev = raw.warn \o @]

determineBundleOutputPath(c, n, a, d) ==
  LET raw ==
        IF a.output # NoDir
          THEN [err |-> "", val |-> Str(join(a.output, n, "graphql")), warn |-> <<>>]
        ELSE IF hasBundle(c)
          THEN [err |-> "", val |-> c.bundle,
                warn |-> deprecated(a, n, "bundle", "bundle")]
        ELSE IF hasPrepareBundle(c)
          THEN [err |-> "", val |-> c.prepareBundle, warn |-> <<>>]
        ELSE [err |-> "OutputPath", val |-> Absent, warn |-> <<>>]
      e == ensureDirSync(raw.val, d, n, "bundle")
  IN IF raw.err # ""
       THEN [err |-> raw.err, path |-> NoPath, dirs |-> d, ev |-> <<>>]
       ELSE [e EXCEPT !.ev = raw.warn \o @]

determineBindingOutputPath(c, n, a, d, extension) ==
  LET raw ==
        IF a.output # NoDir
          THEN [err |-> "", val |-> Str(join(a.output, n, extension)), warn |-> <<>>]
        ELSE IF hasBindingOutput(c)
          THEN [err |-> "", val |-> Str(c.binding.output),
                warn |-> deprecated(a, n, "binding", "binding.output")]
        ELSE IF hasPrepareBindingOutput(c)
          THEN [err |-> "", val |-> Str(c.prepareBinding.output), warn |-> <<>>]
        ELSE [err |-> "OutputPath", val |-> Absent, warn |-> <<>>]
      e == ensureDirSync(raw.val, d, n, "binding")
  IN IF raw.err # ""
       THEN [err |-> raw.err, path |-> NoPath, dirs |-> d, ev |-> <<>>]
       ELSE [e EXCEPT !.ev = raw.warn \o @]

determineSchemaPath(c) ==
  IF c.schemaPath # NoPath
    THEN [err |-> "", path |-> c.schemaPath]
    ELSE [err |-> "NoSchemaPath", path |-> NoPath]

\* (variant) falls back to a default generator instead of throwing
determineGeneratorDefault(c, n, a) ==
  IF a.generator # NoGen
    THEN [err |-> "", gen |-> a.generator, ev |-> <<>>]
  ELSE IF hasBindingGenerator(c)
    THEN [err |-> "", gen |-> c.binding.generator,
          ev |-> deprecated(a, n, "binding", "binding.generator")]
  ELSE IF hasPrepareBindingGenerator(c)
    THEN [err |-> "", gen |-> c.prepareBinding.generator, ev |-> <<>>]
  ELSE [err |-> "", gen |-> JsGen, ev |-> <<>>]

\* (variant) a persisted generator is preferred to --generator
determineGeneratorPersistedFirst(c, n, a) ==
  IF hasBindingGenerator(c)
    THEN [err |-> "", gen |-> c.binding.generator,
          ev |-> deprecated(a, n, "binding", "binding.generator")]
  ELSE IF hasPrepareBindingGenerator(c)
    THEN [err |-> "", gen |-> c.prepareBinding.generator, ev |-> <<>>]
  ELSE IF a.generator # NoGen
    THEN [err |-> "", gen |-> a.generator, ev |-> <<>>]
  ELSE [err |-> "Generator", gen |-> NoGen, ev |-> <<>>]

determineGenerator(c, n, a) ==
  IF a.generator # NoGen
    THEN [err |-> "", gen |-> a.generator, ev |-> <<>>]
  ELSE IF hasBindingGenerator(c)
    THEN [err |-> "", gen |-> c.binding.generator,
          ev |-> deprecated(a, n, "binding", "binding.generator")]
  ELSE IF hasPrepareBindingGenerator(c)
    THEN [err |-> "", gen |-> c.prepareBinding.generator, ev |-> <<>>]
  ELSE [err |-> "Generator", gen |-> NoGen, ev |-> <<>>]

\* schemaPath: the bundle output of this run for the project, or NoPath.
determineInputSchema(c, n, fs, schemaPath) ==
  LET chosen ==
        IF schemaPath # NoPath THEN schemaPath
        ELSE IF hasPrepareBundleOutput(c) THEN c.prepareBundle.path
        ELSE IF hasBundleOutput(c) THEN c.bundle.path
        ELSE c.schemaPath
  IN IF chosen = NoPath
       THEN [err |-> "InputSchema", path |-> NoPath, ev |-> <<>>]
     ELSE IF chosen \in DOMAIN fs
       THEN [err |-> "", path |-> chosen,
             ev |-> <<Ev("exists", n, "binding", chosen, "")>>]
     ELSE [err |-> "SchemaNotFound", path |-> NoPath,
           ev |-> <<Ev("exists", n, "binding", chosen, "")>>]

\* (variant) the suffix test looks at the last character only
extensionOfLastChar(generator) ==
  IF Len(generator) >= 1 /\ generator[Len(generator)] = "s" THEN "ts" ELSE "js"

\* const extension = generator.endsWith('ts') ? 'ts' : 'js'
extensionOf(generator) == IF endsWith(generator, TS) THEN "ts" ELSE "js"

\* (variant) flattens the schema before the output path is resolved
processBundleFlattenFirst(c, n, a, d, fs, flattenOk) ==
  LET o == determineBundleOutputPath(c, n, a, d)
      s == determineSchemaPath(c)
      fail(err, dd, ev) ==
        [err |-> err, path |-> NoPath, dirs |-> dd, files |-> fs, ev |-> ev]
      call == <<Ev("importSchema", n, "bundle", s.path, "")>>
  IN IF s.err # "" THEN fail(s.err, d, <<>>)
     ELSE IF ~flattenOk THEN fail("importSchema", d, call)
     ELSE IF o.err # "" THEN fail(o.err, o.dirs, call \o o.ev)
     ELSE [err |-> "", path |-> o.path, dirs |-> o.dirs,
           files |-> writeFileSync(fs, o.path, importSchema(s.path)),
           ev |-> call \o o.ev \o <<Ev("write", n, "bundle", o.path, "")>>]

\* flattenOk: whether importSchema returns (it may throw).
processBundle(c, n, a, d, fs, flattenOk) ==
  LET o == determineBundleOutputPath(c, n, a, d)
      s == determineSchemaPath(c)
      fail(err, ev) ==
        [err |-> err, path |-> NoPath, dirs |-> o.dirs, files |-> fs, ev |-> ev]
      call == <<Ev("importSchema", n, "bundle", s.path, "")>>
  IN IF o.err # "" THEN fail(o.err, o.ev)
     ELSE IF s.err # "" THEN fail(s.err, o.ev)
     ELSE IF ~flattenOk THEN fail("importSchema", o.ev \o call)
     ELSE [err |-> "", path |-> o.path, dirs |-> o.dirs,
           files |-> writeFileSync(fs, o.path, importSchema(s.path)),
           ev |-> o.ev \o call \o <<Ev("write", n, "bundle", o.path, "")>>]

\* generateOk: whether generateCode returns (it may throw).
processBindings(c, n, a, d, fs, schemaPath, generateOk) ==
  LET g == determineGenerator(c, n, a)
      o == determineBindingOutputPath(c, n, a, d, extensionOf(g.gen))
      s == determineInputSchema(c, n, fs, schemaPath)
      fail(err, dd, ev) ==
        [err |-> err, output |-> NoPath, generator |-> NoGen,
         dirs |-> dd, files |-> fs, ev |-> ev]
      io == g.ev \o o.ev \o s.ev
             \o <<Ev("read", n, "binding", s.path, ""),
                  [Ev("generateCode", n, "binding", s.path, "") EXCEPT
                     !.gen = g.gen]>>
  IN IF g.err # "" THEN fail(g.err, d, g.ev)
     ELSE IF o.err # "" THEN fail(o.err, o.dirs, g.ev \o o.ev)
     ELSE IF s.err # "" THEN fail(s.err, o.dirs, g.ev \o o.ev \o s.ev)
     ELSE IF ~generateOk THEN fail("generateCode", o.dirs, io)
     ELSE [err |-> "", output |-> o.path, generator |-> g.gen, dirs |-> o.dirs,
           files |-> writeFileSync(fs, o.path, generateCode(fs[s.path], g.gen)),
           ev |-> io \o <<Ev("write", n, "binding", o.path, "")>>]

\* merge(this.project.extensions, fragment): project.extensions is
\* config.extensions when the document has that section; without it the
\* fragment is merged into an object the document does not hold.
mergeBundle(c, p) ==
  IF c.hasExt THEN [c EXCEPT !.prepareBundle = Str(p)] ELSE c

mergeBinding(c, o, g) ==
  IF c.hasExt THEN [c EXCEPT !.prepareBinding = Binding(o, g)] ELSE c

\* The document saveConfig hands to the configuration store.
saveConfig(c) == [c EXCEPT !.bundle = Absent, !.binding = NoBinding]

\* (variant) the gate does not look at the deprecated key
bundleGateNewKeyOnly(c, a) ==
  a.project.kind # "none" \/ hasPrepareBundle(c)

\* The gates of bundle() and bindings()
bundleGate(c, a) ==
  a.project.kind # "none" \/ hasPrepareBundle(c) \/ hasBundle(c)

bindingsGate(c, a) ==
  a.project.kind # "none" \/ hasPrepareBinding(c) \/ hasBinding(c)

---------------------------------------------------------------------------
\* Configuration documents a project may start with.

\* no extensions section at all
Bare(n) == Config(Src(n), FALSE, Absent, Absent, NoBinding, NoBinding)

\* an empty extensions section and no schemaPath
NoSchema(n) == Config(NoPath, TRUE, Absent, Absent, NoBinding, NoBinding)

\* deprecated keys, the binding output in an unavailable directory
Legacy(n) ==
  Config(Src(n), TRUE, Str(join("out", "schema", "graphql")), Absent,
         Binding(join("ro", n, "js"), TsGen), NoBinding)

\* deprecated keys, the bundle one in the { output } form
LegacyObject(n) ==
  Config(Src(n), TRUE, Obj(join("gen", "old", "graphql")), Absent,
         Binding(join("gen", n, "js"), JsGen), NoBinding)

\* as saved by `prepare --output out --generator b-ts --save`
Saved(n) ==
  Config(Src(n), TRUE, Absent, Str(join("out", n, "graphql")),
         NoBinding, Binding(join("out", n, "ts"), TsGen))

\* new keys written by hand, the bundle one in the { output } form and
\* no generator
ObjectForm(n) ==
  Config(Src(n), TRUE, Absent, Obj(join("out", n, "graphql")),
         NoBinding, Binding(join("gen", n, "ts"), NoGen))

\* bindings configured, bundling not
BindingOnly(n) ==
  Config(Src(n), TRUE, Absent, Absent,
         NoBinding, Binding(join("gen", n, "ts"), TsGen))

Configs(n) ==
  {Bare(n), NoSchema(n), Legacy(n), LegacyObject(n), Saved(n), ObjectForm(n),
   BindingOnly(n)}

\* Files on disk before the first run: every project's schema source, the
\* outputs a Saved document refers to and the bundle a LegacyObject document
\* refers to.
InitialFiles(st) ==
  LET srcs == {Src(n) : n \in ProjectNames}
      old == {join("gen", "old", "graphql") :
                n \in {m \in ProjectNames : st[m] = LegacyObject(m)}}
      bundles == {join("out", n, "graphql") :
                    n \in {m \in ProjectNames : st[m] = Saved(m)}}
      codes == {join("out", n, "ts") : n \in {m \in ProjectNames : st[m] = Saved(m)}}
  IN [p \in srcs \cup old \cup bundles \cup codes |->
        IF p \in srcs THEN Sdl(p)
        ELSE IF p \in old THEN importSchema(Src("old"))
        ELSE IF p \in bundles THEN importSchema(Src(p.name))
        ELSE generateCode(importSchema(Src(p.name)), TsGen)]

\* argv.project: absent, one name, or an array of names
NoProject == [kind |-> "none", names |-> <<>>]

Single(n) == [kind |-> "single", names |-> <<n>>]

List(ns) == [kind |-> "list", names |-> ns]

\* Longest --project list a run is given.
MaxListLen == 2

ProjectArgs ==
  {NoProject} \cup {Single(n) : n \in ProjectNames}
    \cup {List(ns) : ns \in UNION {[1..k -> ProjectNames] : k \in 2..MaxListLen}}

Argvs ==
  [project : ProjectArgs, output : {NoDir} \cup OutputDirs,
   save : BOOLEAN, bundle : BOOLEAN, bindings : BOOLEAN,
   generator : {NoGen} \cup Generators, verbose : BOOLEAN]

NoArgv ==
  [project |-> NoProject, output |-> NoDir, save |-> FALSE, bundle |-> FALSE,
   bindings |-> FALSE, generator |-> NoGen, verbose |-> FALSE]

---------------------------------------------------------------------------
VARIABLES
  store,                  \* the configuration file: project name -> document
  delivered,              \* getProjects(): names in order, <<>> when undefined
  files,                  \* the file system: path -> contents
  dirs,                   \* the existing directories
  cli,                    \* the run arguments as the host parsed them
  argv,                   \* the run arguments
  pc,                     \* where the run is
  loaded,                 \* the documents as getConfig returned them
  config,                 \* this.config: the documents, as merged by the steps
  projects,               \* Object.keys(projects) still to be processed
  processed,              \* projects the loop has taken up, in order
  projectName,            \* this.projectName
  bundleExtensionConfig,  \* this.bundleExtensionConfig['prepare-bundle'] or NoPath
  saved,                  \* documents handed to config.saveConfig in this run
  trace,                  \* calls to collaborators in this run, in order
  error,                  \* the Error that ended the run, "" if none
  run,                    \* runs started
  maxRun,                 \* runs allowed
  previous                \* the run before this one: its arguments and outcome

vars ==
  <<store, delivered, files, dirs, cli, argv, pc, loaded, config, projects,
    processed, projectName, bundleExtensionConfig, saved, trace, error, run,
    maxRun, previous>>

\* this.project.config
project == config[projectName]

\* What is kept of a run when the next one starts.
Outcome(a, end, tr, sv) == [argv |-> a, pc |-> end, trace |-> tr, saved |-> sv]

\* The state before the first of `runs` runs.
Start(runs) ==
  /\ delivered \in {<<>>, Delivered}
  /\ store \in [ProjectNames -> UNION {Configs(n) : n \in ProjectNames}]
  /\ \A n \in ProjectNames : store[n] \in Configs(n)
  /\ delivered = <<>> => \A n \in ProjectNames : store[n] = Bare(n)
  /\ files = InitialFiles(store)
  /\ dirs = {dirname(p) : p \in DOMAIN files}
  /\ cli = NoArgv
  /\ argv = NoArgv
  /\ pc = "idle"
  /\ loaded = store
  /\ config = store
  /\ projects = <<>>
  /\ processed = <<>>
  /\ projectName = ""
  /\ bundleExtensionConfig = NoPath
  /\ saved = <<>>
  /\ trace = <<>>
  /\ error = ""
  /\ run = 0
  /\ maxRun = runs
  /\ previous = Outcome(NoArgv, "idle", <<>>, <<>>)

Init == Start(1)

\* The host parses the command line (builder) and calls the handler with
\* one of the argument records `as`.
call(as) ==
  /\ pc \in {"idle", "done", "failed"}
  /\ run < maxRun
  /\ \E a \in as :
       /\ delivered = <<>> => a.project = NoProject
       /\ cli' = a
       /\ argv' = a
  /\ pc' = "handler"
  /\ run' = run + 1
  /\ previous' = Outcome(argv, pc, trace, saved)
  /\ loaded' = store
  /\ config' = store
  /\ projects' = <<>>
  /\ processed' = <<>>
  /\ projectName' = ""
  /\ bundleExtensionConfig' = NoPath
  /\ saved' = <<>>
  /\ trace' = <<>>
  /\ error' = ""
  /\ UNCHANGED <<store, delivered, files, dirs, maxRun>>

invoke == call(Argvs)

\* (variant) with neither flag given only the bundle step is switched on
defaultStepsBundleOnly(a) ==
  IF ~a.bundle /\ ~a.bindings THEN [a EXCEPT !.bundle = TRUE] ELSE a

\* if (!argv.bundle && !argv.bindings) argv.bundle = argv.bindings = true
defaultSteps(a) ==
  IF ~a.bundle /\ ~a.bindings
    THEN [a EXCEPT !.bundle = TRUE, !.bindings = TRUE]
    ELSE a

handler ==
  /\ pc = "handler"
  /\ argv' = defaultSteps(argv)
  /\ pc' = "handle"
  /\ UNCHANGED <<store, delivered, files, dirs, cli, loaded, config, projects,
                 processed, projectName, bundleExtensionConfig, saved, trace,
                 error, run, maxRun, previous>>

\* keys of an object built by merging { [p]: ... } for each p in turn
keys(ns) ==
  LET F[i \in 0..Len(ns)] ==
        IF i = 0 THEN <<>>
        ELSE IF \E j \in 1..(i - 1) : ns[j] = ns[i] THEN F[i - 1]
        ELSE Append(F[i - 1], ns[i])
  IN F[Len(ns)]

\* (variant) all projects are taken in the reverse of the delivered order
getProjectConfigReversed(a, dl) ==
  IF a.project.kind = "list" THEN [err |-> "", names |-> keys(a.project.names)]
  ELSE IF a.project.kind = "single" THEN [err |-> "", names |-> a.project.names]
  ELSE IF dl = <<>> THEN [err |-> "NoProjects", names |-> <<>>]
  ELSE [err |-> "", names |-> [i \in 1..Len(dl) |-> dl[Len(dl) + 1 - i]]]

getProjectConfig(a, dl) ==
  IF a.project.kind = "list" THEN [err |-> "", names |-> keys(a.project.names)]
  ELSE IF a.project.kind = "single" THEN [err |-> "", names |-> a.project.names]
  ELSE IF dl = <<>> THEN [err |-> "NoProjects", names |-> <<>>]
  ELSE [err |-> "", names |-> dl]

\* (variant) the loop catches the Error of a step and goes on
afterStepContinue(err, next) == next

\* An Error thrown by a step is not caught in handle(): it leaves the loop.
\* next: the statement that follows when the step returns.
afterStep(err, next) == IF err # "" THEN "failed" ELSE next

\* the loop of handle() goes on with the next project, or ends
afterSave(ps) == IF ps = <<>> THEN "done" ELSE "setCurrentProject"

\* handle(), up to the first iteration of the loop
handle ==
  /\ pc = "handle"
  /\ loaded' = store
  /\ config' = store
  /\ LET r == getProjectConfig(argv, delivered)
     IN /\ projects' = r.names
        /\ error' = r.err
        /\ pc' = afterStep(r.err, afterSave(r.names))
  /\ UNCHANGED <<store, delivered, files, dirs, cli, argv, processed,
                 projectName, bundleExtensionConfig, saved, trace, run, maxRun,
                 previous>>

\* the statement of the loop body that follows setCurrentProject
firstStep(a) ==
  IF a.bundle THEN "bundle" ELSE IF a.bindings THEN "bindings" ELSE "save"

\* (variant) the bundle fragment of the previous project is kept
setCurrentProjectKeep ==
  /\ pc = "setCurrentProject"
  /\ projects # <<>>
  /\ projectName' = Head(projects)
  /\ projects' = Tail(projects)
  /\ processed' = Append(processed, Head(projects))
  /\ pc' = firstStep(argv)
  /\ UNCHANGED <<store, delivered, files, dirs, cli, argv, loaded, config,
                 saved, trace, error, run, maxRun, previous, bundleExtensionConfig>>

setCurrentProject ==
  /\ pc = "setCurrentProject"
  /\ projects # <<>>
  /\ projectName' = Head(projects)
  /\ projects' = Tail(projects)
  /\ processed' = Append(processed, Head(projects))
  /\ bundleExtensionConfig' = NoPath
  /\ pc' = firstStep(argv)
  /\ UNCHANGED <<store, delivered, files, dirs, cli, argv, loaded, config,
                 saved, trace, error, run, maxRun, previous>>

\* spinner.info when a step is skipped and --verbose is given
skipped(a, n, step) ==
  IF a.verbose THEN <<Ev("info", n, step, NoPath, "")>> ELSE <<>>

\* the statement of the loop body that follows bundle()
afterBundle(a) == IF a.bindings THEN "bindings" ELSE "save"

bundle ==
  /\ pc = "bundle"
  /\ IF bundleGate(project, argv)
       THEN \E flattenOk \in BOOLEAN :
              LET r == processBundle(project, projectName, argv, dirs, files, flattenOk)
                  start == <<Ev("start", projectName, "bundle", NoPath, "")>>
              IN /\ dirs' = r.dirs
                 /\ files' = r.files
                 /\ error' = r.err
                 /\ pc' = afterStep(r.err, afterBundle(argv))
                 /\ IF r.err # ""
                      THEN /\ trace' = trace \o start \o r.ev
                           /\ UNCHANGED <<config, bundleExtensionConfig>>
                      ELSE /\ bundleExtensionConfig' = r.path
                           /\ config' = [config EXCEPT
                                           ![projectName] = mergeBundle(@, r.path)]
                           /\ trace' = trace \o start \o r.ev
                                \o <<Ev("merge", projectName, "bundle", r.path, ""),
                                     Ev("succeed", projectName, "bundle", r.path, "")>>
       ELSE /\ trace' = trace \o skipped(argv, projectName, "bundle")
            /\ pc' = afterBundle(argv)
            /\ UNCHANGED <<dirs, files, error, config, bundleExtensionConfig>>
  /\ UNCHANGED <<store, delivered, cli, argv, loaded, projects, processed,
                 projectName, saved, run, maxRun, previous>>

bindings ==
  /\ pc = "bindings"
  /\ IF bindingsGate(project, argv)
       THEN \E generateOk \in BOOLEAN :
              LET r == processBindings(project, projectName, argv, dirs, files,
                                       bundleExtensionConfig, generateOk)
                  start == <<Ev("start", projectName, "binding", NoPath, "")>>
              IN /\ dirs' = r.dirs
                 /\ files' = r.files
                 /\ error' = r.err
                 /\ pc' = afterStep(r.err, "save")
                 /\ IF r.err # ""
                      THEN /\ trace' = trace \o start \o r.ev
                           /\ UNCHANGED config
                      ELSE /\ config' = [config EXCEPT
                                ![projectName] = mergeBinding(@, r.output, r.generator)]
                           /\ trace' = trace \o start \o r.ev
                                \o <<[Ev("merge", projectName, "binding", r.output, "")
                                        EXCEPT !.gen = r.generator],
                                     Ev("succeed", projectName, "binding", r.output, "")>>
       ELSE /\ trace' = trace \o skipped(argv, projectName, "binding")
            /\ pc' = "save"
            /\ UNCHANGED <<dirs, files, error, config>>
  /\ UNCHANGED <<store, delivered, cli, argv, loaded, projects, processed,
                 projectName, bundleExtensionConfig, saved, run, maxRun,
                 previous>>

save ==
  /\ pc = "save"
  /\ IF argv.save
       THEN LET doc == saveConfig(project)
            IN /\ config' = [config EXCEPT ![projectName] = doc]
               /\ store' = [store EXCEPT ![projectName] = doc]
               /\ saved' = Append(saved, [project |-> projectName, doc |-> doc])
               /\ trace' = trace
                    \o <<Ev("start", projectName, "save", NoPath, ""),
                         Ev("saveConfig", projectName, "save", NoPath, ""),
                         Ev("succeed", projectName, "save", NoPath, "")>>
       ELSE UNCHANGED <<config, store, saved, trace>>
  /\ pc' = afterSave(projects)
  /\ UNCHANGED <<delivered, files, dirs, cli, argv, loaded, projects,
                 processed, projectName, bundleExtensionConfig, error, run,
                 maxRun, previous>>

Next == invoke \/ handler \/ handle \/ setCurrentProject \/ bundle \/ bindings \/ save

Spec == Init /\ [][Next]_vars

---------------------------------------------------------------------------
\* The command run again on the configuration an earlier run saved.

MaxRuns == 2

\* a run that names its output directory and generator and saves
FirstArgvs ==
  {a \in Argvs : a.save /\ a.output # NoDir /\ a.generator # NoGen /\ ~a.verbose}

\* a run that relies on what is persisted
AgainArgvs ==
  {a \in Argvs : a.output = NoDir /\ a.generator = NoGen /\ ~a.verbose}

again == call(IF run = 0 THEN FirstArgvs ELSE AgainArgvs)

InitReuse == Start(MaxRuns) /\ store["B"] = Bare("B")

NextReuse ==
  again \/ handler \/ handle \/ setCurrentProject \/ bundle \/ bindings \/ save

SpecReuse == InitReuse /\ [][NextReuse]_vars

---------------------------------------------------------------------------
\* Reading the trace of a run.

\* the step (bundle or binding) was entered for project n: its gate passed
executed(n, step) ==
  \E i \in DOMAIN trace :
    trace[i].op = "start" /\ trace[i].project = n /\ trace[i].step = step

\* the step returned for project n
succeeded(n, step) ==
  \E i \in DOMAIN trace :
    trace[i].op = "succeed" /\ trace[i].project = n /\ trace[i].step = step

\* the paths given to the calls `op` made in the step for project n
pathsOf(op, n, step) ==
  {trace[i].path : i \in {j \in DOMAIN trace :
      trace[j].op = op /\ trace[j].project = n /\ trace[j].step = step}}

\* files written by the run so far
written == {trace[i].path : i \in {j \in DOMAIN trace : trace[j].op = "write"}}

---------------------------------------------------------------------------
\* C1: when the persisted configuration of a project holds the bundle output
\* path as the bundle step stores it (a string under prepare-bundle) and the
\* binding step runs for the project without the bundle step, every schema
\* file the binding step reads is that persisted bundle output.
C1_BindingReadsPersistedBundle ==
  \A n \in ProjectNames :
    (/\ loaded[n].hasExt
     /\ loaded[n].prepareBundle.kind = "string"
     /\ executed(n, "binding")
     /\ ~executed(n, "bundle"))
    => pathsOf("read", n, "binding") \subseteq {loaded[n].prepareBundle.path}

\* C2: every deprecated key a save removes is replaced by its new key in the
\* document handed to the configuration store.
C2_MigrationKeepsSettings ==
  \A i \in DOMAIN saved :
    LET old == loaded[saved[i].project]
        doc == saved[i].doc
    IN /\ hasBundle(old) => hasPrepareBundle(doc)
       /\ hasBindingOutput(old) => hasPrepareBindingOutput(doc)
       /\ hasBindingGenerator(old) => hasPrepareBindingGenerator(doc)

\* C3: after bundle and binding both succeeded for a project and --save is
\* given, the saved document holds the bundle output path, the binding
\* output path and the generator of this run under the new keys and holds
\* no deprecated key.
C3_SavedDocHoldsNewKeys ==
  \A i \in DOMAIN saved :
    LET n == saved[i].project
        doc == saved[i].doc
    IN (succeeded(n, "bundle") /\ succeeded(n, "binding"))
       => /\ doc.hasExt
          /\ doc.prepareBundle.kind = "string"
          /\ {doc.prepareBundle.path} = pathsOf("write", n, "bundle")
          /\ doc.prepareBinding.present
          /\ {doc.prepareBinding.output} = pathsOf("write", n, "binding")
          /\ \E j \in DOMAIN trace :
               /\ trace[j].op = "generateCode" /\ trace[j].project = n
               /\ trace[j].gen = doc.prepareBinding.generator
          /\ doc.bundle.kind = "absent"
          /\ ~doc.binding.present

\* the calls that touch the file system or a library
IOOps ==
  {"ensureDir", "mkdir", "exists", "read", "write", "importSchema", "generateCode"}

\* the project and step whose call ended the trace
lastProject == trace[Len(trace)].project

lastStep == trace[Len(trace)].step

\* what the step of project n asked of the flattening or generation
\* collaborator, and what it wrote
workOf(n, step) ==
  pathsOf("importSchema", n, step) \cup pathsOf("generateCode", n, step)
    \cup pathsOf("write", n, step)

\* C4 (as stated): when a destination directory cannot be created the run
\* fails before the collaborator of that step is called, and the run has
\* written no output file at all.
C4_NoFileWrittenByRun ==
  error = "EnsureDir"
    => /\ pc = "failed"
       /\ workOf(lastProject, lastStep) = {}
       /\ written = {}

\* C4 (amended): when a destination directory cannot be created the run
\* fails before the collaborator of that step is called and that step has
\* written no file; files written by earlier steps of the run remain.
C4_FailsBeforeCollaborator ==
  error = "EnsureDir"
    => /\ pc = "failed"
       /\ trace[Len(trace)].op = "ensureDir"
       /\ workOf(lastProject, lastStep) = {}
       /\ written \subseteq DOMAIN files

C4_Witness ==
  /\ error = "EnsureDir"
  /\ lastStep = "binding"
  /\ succeeded(lastProject, "bundle")
  /\ written # {}

\* the binding step is entered for n with no --generator and no persisted
\* generator setting
noGenerator(n) ==
  /\ executed(n, "binding")
  /\ argv.generator = NoGen
  /\ ~hasBindingGenerator(loaded[n])
  /\ ~hasPrepareBindingGenerator(loaded[n])

\* C5 (as stated): without --generator and without a persisted generator the
\* binding step fails with "Generator cannot be determined", and at that
\* moment the run has done no file I/O at all.
C5_NoIOBeforeGeneratorError ==
  \A n \in ProjectNames :
    noGenerator(n)
      => /\ pc = "failed" /\ error = "Generator"
         /\ \A i \in DOMAIN trace : trace[i].op \notin IOOps

\* C5 (amended): without --generator and without a persisted generator the
\* binding step fails with "Generator cannot be determined" before the
\* binding step itself has done any file I/O.
C5_GeneratorErrorBeforeBindingIO ==
  \A n \in ProjectNames :
    noGenerator(n)
      => /\ pc = "failed" /\ error = "Generator"
         /\ \A i \in DOMAIN trace :
              (trace[i].project = n /\ trace[i].step = "binding")
                => trace[i].op \notin IOOps

C5_Witness ==
  /\ noGenerator(projectName)
  /\ succeeded(projectName, "bundle")
  /\ pc = "failed"

\* the generator name ends in 'ts'
EndsInTs(g) == Len(g) >= 2 /\ g[Len(g) - 1] = "t" /\ g[Len(g)] = "s"

\* the generators handed to generateCode in the binding step of project n
generatorsOf(n) ==
  {trace[i].gen : i \in {j \in DOMAIN trace :
      trace[j].op = "generateCode" /\ trace[j].project = n}}

\* C6 (as stated): the binding output file of a successful binding step has
\* the extension ts when the generator name ends in 'ts' and js otherwise,
\* wherever the output path comes from.
C6_ExtensionFollowsGenerator ==
  \A n \in ProjectNames :
    succeeded(n, "binding")
      => \A p \in pathsOf("write", n, "binding") : \A g \in generatorsOf(n) :
           p.ext = IF EndsInTs(g) THEN "ts" ELSE "js"

\* C6 (amended): the same, for an output path built from --output.
C6_ExtensionFollowsGeneratorWithOutput ==
  \A n \in ProjectNames :
    (succeeded(n, "binding") /\ argv.output # NoDir)
      => \A p \in pathsOf("write", n, "binding") : \A g \in generatorsOf(n) :
           /\ p.ext = IF EndsInTs(g) THEN "ts" ELSE "js"
           /\ p.dir = argv.output /\ p.name = n

C6_Witness ==
  \E n \in ProjectNames :
    /\ succeeded(n, "binding")
    /\ argv.output # NoDir
    /\ generatorsOf(n) = {JsGen}
    /\ hasPrepareBindingGenerator(loaded[n])

\* the projects the loop has taken up
taken == {processed[i] : i \in DOMAIN processed}

\* the projects the loop has not taken up yet
pending == {projects[i] : i \in DOMAIN projects}

\* C7: when a step fails for a project the run stops: nothing more is done
\* for that project, nothing at all for the projects after it, and what was
\* written and saved for earlier projects stays.
C7_FailureStopsRun ==
  error \notin {"", "NoProjects"}
    => /\ pc = "failed"
       /\ ~ENABLED (handle \/ setCurrentProject \/ bundle \/ bindings \/ save)
       /\ lastProject = projectName
       /\ trace[Len(trace)].op \notin {"succeed", "merge", "saveConfig", "write"}
       /\ \A i \in DOMAIN saved : saved[i].project \notin pending \cup {projectName}
       /\ \A i \in DOMAIN trace : trace[i].project \notin pending
       /\ config[projectName].prepareBinding = loaded[projectName].prepareBinding
       /\ written \subseteq DOMAIN files
       /\ \A i \in DOMAIN saved : store[saved[i].project] = saved[i].doc

C7_Witness ==
  /\ pc = "failed"
  /\ error = "NoSchemaPath"
  /\ pending # {}
  /\ argv.save

\* the gate of a step, read off the persisted configuration
configured(n, step) ==
  /\ loaded[n].hasExt
  /\ IF step = "bundle"
       THEN loaded[n].bundle.kind # "absent" \/ loaded[n].prepareBundle.kind # "absent"
       ELSE loaded[n].binding.present \/ loaded[n].prepareBinding.present

flagOf(step) == IF step = "bundle" THEN argv.bundle ELSE argv.bindings

\* the loop is past the call of the step for project n
past(n, step) ==
  /\ n \in taken
  /\ n = projectName
       => IF step = "bundle"
            THEN pc # "bundle"
            ELSE pc \notin {"bundle", "bindings", "failed"}

\* what the step merged into the extensions of project n
mergedBy(n, step) ==
  IF step = "bundle"
    THEN config[n].prepareBundle # loaded[n].prepareBundle
    ELSE config[n].prepareBinding # loaded[n].prepareBinding

\* C8: a step is executed for a project exactly when its flag is set and
\* either --project was given or the persisted configuration has the step's
\* extension key (new or deprecated); otherwise the step writes no file and
\* merges nothing.
C8_GateDecidesStep ==
  \A n \in ProjectNames : \A step \in {"bundle", "binding"} :
    /\ executed(n, step)
         => flagOf(step) /\ (argv.project.kind # "none" \/ configured(n, step))
    /\ (past(n, step) /\ flagOf(step)
          /\ (argv.project.kind # "none" \/ configured(n, step)))
         => executed(n, step)
    /\ ~executed(n, step)
         => /\ pathsOf("write", n, step) = {}
            /\ pathsOf("merge", n, step) = {}
            /\ ~mergedBy(n, step)

C8_Witness ==
  /\ pc = "done"
  /\ argv.project.kind = "none"
  /\ argv.bundle /\ argv.bindings
  /\ executed("A", "bundle") /\ loaded["A"].bundle.kind = "string"
  /\ executed("A", "binding")
  /\ "B" \in taken
  /\ ~executed("B", "bundle") /\ ~executed("B", "binding")

\* the bundle output path of project n as the run arguments and the
\* persisted configuration give it: --output joined with <name>.graphql,
\* else the persisted setting; NoPath when there is none
resolvedBundlePath(n) ==
  IF argv.output # NoDir THEN join(argv.output, n, "graphql")
  ELSE IF loaded[n].hasExt /\ loaded[n].bundle.kind = "string"
    THEN loaded[n].bundle.path
  ELSE IF loaded[n].hasExt /\ loaded[n].bundle.kind = "absent"
          /\ loaded[n].prepareBundle.kind = "string"
    THEN loaded[n].prepareBundle.path
  ELSE NoPath

resolvable(n) ==
  resolvedBundlePath(n) # NoPath /\ resolvedBundlePath(n).dir \notin Uncreatable

bundleOnly == argv.bundle /\ ~argv.bindings

gatedIn(n, step) == argv.project.kind # "none" \/ configured(n, step)

position(n) == CHOOSE i \in DOMAIN processed : processed[i] = n

\* no project taken up after n and gated in has the same bundle output path
lastWriter(n) ==
  \A m \in taken :
    (position(m) > position(n) /\ gatedIn(m, "bundle"))
      => resolvedBundlePath(m) # resolvedBundlePath(n)

\* C9 (as stated): a bundle-only run ends with, for every project with a
\* schemaPath and a resolvable output directory, a file at the resolved
\* bundle output path holding the flattened text of the project's schemaPath.
C9_BundleOnlyWritesFlattened ==
  (pc = "done" /\ bundleOnly)
    => \A n \in taken :
         (loaded[n].schemaPath # NoPath /\ resolvable(n))
           => /\ resolvedBundlePath(n) \in DOMAIN files
              /\ files[resolvedBundlePath(n)] = <<"flat", loaded[n].schemaPath>>

\* C9 (amended): the same for every project that passes the bundle gate;
\* the content is that of the project's own schemaPath unless a later
\* project of the run resolved to the same path and overwrote the file.
C9_BundleOnlyWritesFlattenedWhenGated ==
  (pc = "done" /\ bundleOnly)
    => \A n \in taken :
         gatedIn(n, "bundle")
           => /\ loaded[n].schemaPath # NoPath /\ resolvable(n)
              /\ resolvedBundlePath(n) \in DOMAIN files
              /\ lastWriter(n)
                   => files[resolvedBundlePath(n)] = <<"flat", loaded[n].schemaPath>>

C9_Witness ==
  /\ pc = "done" /\ bundleOnly
  /\ argv.project.kind = "none"
  /\ processed = <<"A", "B">>
  /\ gatedIn("A", "bundle") /\ written = {resolvedBundlePath("A")}
  /\ ~gatedIn("B", "bundle") /\ loaded["B"].schemaPath # NoPath

\* the names given with --project
named == {argv.project.names[i] : i \in DOMAIN argv.project.names}

\* C10: a bundle-only run with --output D and a list of project names
\* writes D/P.graphql with the flattened schema of P for each named P and
\* no other file.
C10_OutputListWritesExactly ==
  (bundleOnly /\ argv.output # NoDir /\ argv.project.kind = "list")
    => /\ written \subseteq {join(argv.output, n, "graphql") : n \in named}
       /\ \A f \in written : files[f] = <<"flat", loaded[f.name].schemaPath>>
       /\ pc = "done"
            => written = {join(argv.output, n, "graphql") : n \in named}

C10_Witness ==
  /\ pc = "done" /\ bundleOnly
  /\ argv.project = List(<<"B", "A">>)
  /\ argv.output = "out"
  /\ Cardinality(written) = 2

---------------------------------------------------------------------------
\* the generator setting persisted for project n (NoGen when there is none)
persistedGenerator(n) ==
  IF hasBindingGenerator(loaded[n]) THEN loaded[n].binding.generator
  ELSE IF hasPrepareBindingGenerator(loaded[n])
    THEN loaded[n].prepareBinding.generator
  ELSE NoGen

\* the generator the resolution order gives for project n
resolvedGenerator(n) ==
  IF argv.generator # NoGen THEN argv.generator ELSE persistedGenerator(n)

\* the generators recorded in the fragments the binding step returned for n
fragmentGeneratorsOf(n) ==
  {trace[i].gen : i \in {j \in DOMAIN trace :
      trace[j].op = "merge" /\ trace[j].project = n /\ trace[j].step = "binding"}}

\* C11: the generator of a binding step is --generator when given, otherwise
\* the persisted generator of the project, otherwise the step fails with
\* "Generator cannot be determined"; the generator handed to generateCode is
\* that one, and the fragment the step returns records the same generator.
C11_GeneratorResolution ==
  \A n \in ProjectNames :
    executed(n, "binding")
      => /\ generatorsOf(n) \subseteq {resolvedGenerator(n)}
         /\ resolvedGenerator(n) = NoGen
              => /\ pc = "failed" /\ error = "Generator"
                 /\ generatorsOf(n) = {}
         /\ resolvedGenerator(n) # NoGen => ~(projectName = n /\ error = "Generator")
         /\ succeeded(n, "binding")
              => /\ generatorsOf(n) = {resolvedGenerator(n)}
                 /\ fragmentGeneratorsOf(n) = generatorsOf(n)
                 /\ config[n].hasExt
                      => config[n].prepareBinding.generator = resolvedGenerator(n)

C11_Witness ==
  \E n \in ProjectNames :
    /\ succeeded(n, "binding")
    /\ argv.generator # NoGen
    /\ persistedGenerator(n) \notin {NoGen, argv.generator}
    /\ fragmentGeneratorsOf(n) = {argv.generator}
---------------------------------------------------------------------------
\* the command was invoked with neither --bundle nor --bindings
neitherFlag == ~cli.bundle /\ ~cli.bindings

\* the handler has looked at the flags
flagsSettled == pc \notin {"idle", "handler"}

\* C12: invoked with neither --bundle nor --bindings, the run treats both
\* flags as set and executes the bundle step and the binding step for every
\* project whose gate passes; invoked with at least one of the two flags,
\* the run uses the flags as given.  No other argument is changed.
C12_NeitherFlagRunsBoth ==
  flagsSettled
    => /\ neitherFlag
            => /\ argv.bundle /\ argv.bindings
               /\ \A n \in ProjectNames : \A step \in {"bundle", "binding"} :
                    (past(n, step) /\ gatedIn(n, step)) => executed(n, step)
       /\ ~neitherFlag
            => argv.bundle = cli.bundle /\ argv.bindings = cli.bindings
       /\ argv = [cli EXCEPT !.bundle = argv.bundle, !.bindings = argv.bindings]

C12_Witness ==
  /\ neitherFlag
  /\ pc = "done"
  /\ argv.project.kind = "none"
  /\ \E n \in ProjectNames : succeeded(n, "bundle") /\ succeeded(n, "binding")
  /\ \E n \in ProjectNames : ~executed(n, "bundle") /\ ~gatedIn(n, "bundle")
---------------------------------------------------------------------------
\* the projects in the order the configuration store handed them over: the
\* order of getProjects() without --project, the order asked for with it
asked == IF argv.project.kind = "none" THEN delivered ELSE argv.project.names

\* where the store first handed over project n
firstAt(n) ==
  CHOOSE i \in DOMAIN asked :
    asked[i] = n /\ \A j \in 1..(i - 1) : asked[j] # n

\* the order of the steps within a project
rank(step) == IF step = "bundle" THEN 1 ELSE IF step = "binding" THEN 2 ELSE 3

\* the loop body has ended for project n
finished(n) ==
  n \in taken /\ (n = projectName => pc \in {"setCurrentProject", "done"})

\* where in the trace the step of project n made the calls `op`
callsOf(op, n, step) ==
  {i \in DOMAIN trace :
     trace[i].op = op /\ trace[i].project = n /\ trace[i].step = step}

\* the calls of the configuration store's saveConfig for project n
saveCalls(n) ==
  {i \in DOMAIN trace : trace[i].op = "saveConfig" /\ trace[i].project = n}

\* C13: projects are processed one after another in the order the
\* configuration store handed them over; within a project the bundle step's
\* write precedes the binding step's read, both precede the project's config
\* save, and that save precedes every step of the next project; saveConfig
\* is called once per fully processed project with --save, never without.
C13_EventOrder ==
  pc \notin {"idle", "handler", "handle"}
    => /\ \A i \in DOMAIN processed : processed[i] \in {asked[k] : k \in DOMAIN asked}
       /\ \A i, j \in DOMAIN processed :
            i < j => firstAt(processed[i]) < firstAt(processed[j])
       /\ \A k \in DOMAIN asked :
            asked[k] \in taken \/ \E j \in DOMAIN projects : projects[j] = asked[k]
       /\ \A i, j \in DOMAIN projects : \A n \in taken :
            /\ firstAt(n) < firstAt(projects[i])
            /\ i < j => firstAt(projects[i]) < firstAt(projects[j])
       /\ \A i \in 1..(Len(trace) - 1) :
            /\ position(trace[i].project) <= position(trace[i + 1].project)
            /\ trace[i].project = trace[i + 1].project
                 => rank(trace[i].step) <= rank(trace[i + 1].step)
       /\ \A n \in taken :
            /\ \A i \in callsOf("write", n, "bundle") :
                 \A j \in callsOf("read", n, "binding") : i < j
            /\ \A i \in callsOf("write", n, "bundle") \cup callsOf("read", n, "binding") :
                 \A k \in saveCalls(n) : i < k
            /\ \A k \in saveCalls(n) : \A j \in DOMAIN trace :
                 position(trace[j].project) > position(n) => k < j
       /\ \A n \in ProjectNames :
            Cardinality(saveCalls(n)) = IF argv.save /\ finished(n) THEN 1 ELSE 0
       /\ Len(saved) = Cardinality({i \in DOMAIN trace : trace[i].op = "saveConfig"})

C13_Witness ==
  /\ pc = "done" /\ argv.save
  /\ processed = <<"B", "A">>
  /\ \A n \in ProjectNames : succeeded(n, "bundle") /\ succeeded(n, "binding")
  /\ \E i, j, k \in DOMAIN trace :
       /\ i < j /\ j < k
       /\ trace[i].op = "write" /\ trace[i].project = "B" /\ trace[i].step = "bundle"
       /\ trace[j].op = "saveConfig" /\ trace[j].project = "B"
       /\ trace[k].op = "start" /\ trace[k].project = "A" /\ trace[k].step = "bundle"
---------------------------------------------------------------------------
\* the input schema the binding step of n resolves from n's own
\* configuration, with no bundle output of this run
ownInputSchema(n) ==
  IF hasPrepareBundleOutput(loaded[n]) THEN loaded[n].prepareBundle.path
  ELSE IF hasBundleOutput(loaded[n]) THEN loaded[n].bundle.path
  ELSE loaded[n].schemaPath

\* the files the bundle steps of the other projects wrote in this run
bundledForOthers(n) ==
  UNION {pathsOf("write", m, "bundle") : m \in ProjectNames \ {n}}

\* C14: the bundle path handed to the binding step of a project is the
\* project's own bundle output of this run when its bundle step ran, and is
\* absent otherwise; the binding step of a project whose bundle step did not
\* run never reads the bundle output written for another project.
C14_FreshBundleIsOwn ==
  /\ (pc = "bindings" /\ succeeded(projectName, "bundle"))
       => {bundleExtensionConfig} = pathsOf("write", projectName, "bundle")
  /\ (pc = "bindings" /\ ~succeeded(projectName, "bundle"))
       => bundleExtensionConfig = NoPath
  /\ \A n \in ProjectNames :
       executed(n, "binding")
         => /\ succeeded(n, "bundle")
                 => /\ pathsOf("exists", n, "binding") \subseteq pathsOf("write", n, "bundle")
                    /\ pathsOf("read", n, "binding") \subseteq pathsOf("write", n, "bundle")
            /\ ~succeeded(n, "bundle")
                 => /\ pathsOf("exists", n, "binding") \subseteq {ownInputSchema(n)}
                    /\ pathsOf("read", n, "binding") \subseteq {ownInputSchema(n)}
                    /\ pathsOf("read", n, "binding") \cap bundledForOthers(n) = {}

C14_Witness ==
  /\ processed = <<"A", "B">>
  /\ argv.bundle
  /\ succeeded("A", "bundle")
  /\ ~executed("B", "bundle")
  /\ succeeded("B", "binding")
  /\ pathsOf("read", "B", "binding") = {loaded["B"].schemaPath}
---------------------------------------------------------------------------
\* the deprecated keys the status reporter warned about for project n
warnedKeys(n) ==
  {trace[i].key : i \in {j \in DOMAIN trace :
      trace[j].op = "warn" /\ trace[j].project = n}}

\* the step of project n got as far as preparing the directory of its output
outputResolved(n, step) == pathsOf("ensureDir", n, step) # {}

\* the bundle output path of n was taken from the deprecated key
usesDeprecatedBundle(n) ==
  outputResolved(n, "bundle") /\ argv.output = NoDir /\ hasBundle(loaded[n])

\* the binding output path of n was taken from the deprecated key
usesDeprecatedBindingOutput(n) ==
  /\ outputResolved(n, "binding")
  /\ argv.output = NoDir /\ hasBindingOutput(loaded[n])

\* the generator of n was taken from the deprecated key
usesDeprecatedGenerator(n) ==
  /\ executed(n, "binding")
  /\ argv.generator = NoGen /\ hasBindingGenerator(loaded[n])

\* the input schema of the binding step of n was taken from the deprecated key
usesDeprecatedInputSchema(n) ==
  /\ pathsOf("exists", n, "binding") # {}
  /\ ~succeeded(n, "bundle")
  /\ ~hasPrepareBundleOutput(loaded[n]) /\ hasBundleOutput(loaded[n])

\* C15: without --save, whenever the value of a deprecated key resolves an
\* output path, a generator or a binding input schema, a deprecation warning
\* naming that key is emitted; with --save no deprecation warning is emitted.
C15_DeprecatedUseWarns ==
  /\ argv.save => \A i \in DOMAIN trace : trace[i].op # "warn"
  /\ ~argv.save
       => \A n \in ProjectNames :
            /\ usesDeprecatedBundle(n) => "bundle" \in warnedKeys(n)
            /\ usesDeprecatedBindingOutput(n) => "binding.output" \in warnedKeys(n)
            /\ usesDeprecatedGenerator(n) => "binding.generator" \in warnedKeys(n)
            /\ usesDeprecatedInputSchema(n)
                 => warnedKeys(n) \cap {"bundle", "bundle.output"} # {}
---------------------------------------------------------------------------
\* the paths given to the calls `op` in the step of project n, in the trace tr
pathsIn(tr, op, n, step) ==
  {tr[i].path : i \in {j \in DOMAIN tr :
      tr[j].op = op /\ tr[j].project = n /\ tr[j].step = step}}

\* the generators handed to generateCode for project n in the trace tr
generatorsIn(tr, n) ==
  {tr[i].gen : i \in {j \in DOMAIN tr :
      tr[j].op = "generateCode" /\ tr[j].project = n}}

\* the documents saved for project n in the sequence sv
docsIn(sv, n) == {sv[i].doc : i \in {j \in DOMAIN sv : sv[j].project = n}}

\* the run before this one succeeded with --save, --output and --generator
\* and executed both steps for project n
preparedBefore(n) ==
  /\ previous.pc = "done"
  /\ previous.argv.save
  /\ previous.argv.output # NoDir /\ previous.argv.generator # NoGen
  /\ pathsIn(previous.trace, "succeed", n, "bundle") # {}
  /\ pathsIn(previous.trace, "succeed", n, "binding") # {}

\* this run has neither --output nor --generator
relies == flagsSettled /\ argv.output = NoDir /\ argv.generator = NoGen

\* C16: after a successful run with --save, --output and --generator that
\* executed both steps for project P, a run for P with neither --output nor
\* --generator passes the gate of each step it asks for, resolves the bundle
\* output path, the binding output path and the generator of the first run,
\* and with --save saves for P the document the first run saved.
C16_ReuseAcrossRuns ==
  \A n \in ProjectNames :
    (preparedBefore(n) /\ relies)
      => /\ (past(n, "bundle") /\ argv.bundle)
              => /\ executed(n, "bundle")
                 /\ pathsOf("ensureDir", n, "bundle")
                      = pathsIn(previous.trace, "write", n, "bundle")
         /\ (past(n, "binding") /\ argv.bindings)
              => /\ executed(n, "binding")
                 /\ pathsOf("ensureDir", n, "binding")
                      = pathsIn(previous.trace, "write", n, "binding")
                 /\ generatorsOf(n) \subseteq generatorsIn(previous.trace, n)
         /\ docsIn(saved, n) \subseteq docsIn(previous.saved, n)
====
